---- MODULE Spec2Model ----
(***************************************************************************)
(* Story-Mode-AI: the pipeline orchestrator (AppComponent) and the clip    *)
(* generator's poll loop (GeminiService.generateVideoClip).                *)
(*                                                                         *)
(* Spec      the pipeline under every interleaving of generateStory,       *)
(*           startOver, file picks, the signal effect and the resolution   *)
(*           of pending external calls.                                    *)
(* SpecSolo  the component with all its edit handlers when the user leaves *)
(*           a run alone: no user action while a run is in flight.         *)
(* SpecClip  one call of generateVideoClip with its clock, waits and polls.*)
(* SpecRoster  the roster handlers alone, with one character more.         *)
(* SpecLong  SpecSolo with a segment list one longer.                      *)
(* SpecStart  the start of one generateVideoClip call over segment times.  *)
(* SpecLinked  one run of generateStory whose generateVideoClip calls are  *)
(*           followed through their poll loops; SpecLinkedFair adds that   *)
(*           every pending continuation is eventually run.                 *)
(* SpecPlay  playback of a completed clip list.                            *)
(*                                                                         *)
(* Every await of the source is a suspension point: an action runs from    *)
(* one suspension point to the next (promise continuations chained in one  *)
(* microtask drain are one action, since no user event or timer can run    *)
(* between them).                                                          *)
(***************************************************************************)
EXTENDS Integers, Sequences, FiniteSets, TLC

\* ---------------------------------------------------------------- bounds
MaxRuns == 2        \* generateStory invocations in one behaviour
MaxSegs == 2        \* longest segment list the Segmenter returns
MaxChars == 1       \* roster size the user builds with addCharacter
MaxUploads == 2     \* files the user picks (audio or photo)
MaxNow == 2         \* last clock reading (ms) of the component model
MaxPollDelay == 1   \* longest lateness of a timer or poll, in DelayUnit
DelayUnit == 2500   \* ms per unit of lateness
Ticks == 4          \* segment times are counted in 1/Ticks of a second
MaxTime == 40       \* latest ordinary segment time, in ticks
MaxClips == 3       \* longest clip list that is played back
MaxEnded == 5       \* 'ended' events of the video element after one playStory
MaxAudioTime == 3   \* last position of the audio element that is told apart

\* ------------------------------------------------------------- constants
NULL == 0                    \* null / '' for files, blob handles, ids
InitialWait == 5000
WaitCap == 15000
DeadlineMs == 10 * 60 * 1000
MinClipSeconds == 5
MaxClipSeconds == 8

VARIABLES
  \* AppComponent signals
  status, audioFile, audioUrl, characters, storyContext, generatedClips,
  errorMsg, progress,
  \* GeminiService.progress and the pending run of the effect that copies it
  svcProgress, effectPending,
  \* environment: API_KEY, Date.now(), URL.createObjectURL, file picks
  apiKey, now, uploads,
  \* the generateStory invocations (async frames) and the reset history
  runs, nextRun, abandoned,
  \* one generateVideoClip call
  cpc, characterPhoto, opDone, wait, deadline, waits, seenAt, result,
  \* its segment argument's times and the durationSeconds of its start request
  segTimes, durationSeconds,
  \* playback: the index signal, the two media elements, and the history of
  \* the playback (playStory has run; handleVideoEnded calls since then)
  currentClipIndex, viewReady, videoSrc, videoPlaying, audioPaused, audioTime,
  played, ended

appVars == <<status, audioFile, audioUrl, characters, storyContext,
             generatedClips, errorMsg, progress>>
svcVars == <<svcProgress, effectPending>>
envVars == <<apiKey, now, uploads>>
runVars == <<runs, nextRun, abandoned>>
clipVars == <<cpc, characterPhoto, opDone, wait, deadline, waits, seenAt,
              result, segTimes, durationSeconds>>
argVars == <<characterPhoto, segTimes>>
playVars == <<currentClipIndex, viewReady, videoSrc, videoPlaying,
              audioPaused, audioTime, played, ended>>
vars == <<appVars, svcVars, envVars, runVars, clipVars, playVars>>

Min(a, b) == IF a < b THEN a ELSE b
Max(a, b) == IF a > b THEN a ELSE b

\* ------------------------------------------------------------ data model
AppState == {"idle", "processing", "complete", "error"}

\* what the user types into a name, a description or the context
Texts == {"", "Ann"}

BlankCharacter(id) ==
  [id |-> id, name |-> "", description |-> "", photoUrl |-> NULL,
   photoFile |-> NULL]

\* Progress without its message, a display text the program never reads
Prog(stage, current, total) ==
  [stage |-> stage, current |-> current, total |-> total]

NoProgress == Prog("null", 0, 0)

\* the messages generateVideoClip throws
MsgNoKey == "API Key is not available. Ensure the API_KEY environment variable is set."
MsgReadFailed == "[object ProgressEvent]"
MsgStartFailed == "Failed to start video generation: reason"
MsgTimedOut == "Video generation timed out after 10 minutes."
MsgPollFailed == "Polling for video failed: reason"
MsgJobFailed == "Video generation failed: reason"
MsgNoLink == "Video generation succeeded, but no download link was returned."
MsgDownloadFailed == "Downloading video failed: reason"
MsgSegmentFailed == "Failed to analyze audio: reason"
\* what the GoogleGenAI constructor throws, if it refuses a missing key
MsgClientFailed == "GoogleGenAI: reason"

ClipErrors == {MsgReadFailed, MsgStartFailed, MsgTimedOut, MsgPollFailed,
               MsgJobFailed, MsgNoLink, MsgDownloadFailed}

RunIds == 1..MaxRuns

NoRun == [pc |-> "none", segments |-> <<>>, i |-> 0, calls |-> <<>>,
          photo |-> NULL]

InFlight(r) == runs[r].pc \in {"readAudio", "segment", "clip"}

\* ------------------------------------------------------- initial states
\* currentClipIndex = signal(0); the view children are not there yet; the
\* media elements have no source and do not play
InitPlayer ==
  /\ currentClipIndex = 0
  /\ viewReady = FALSE
  /\ videoSrc = NULL
  /\ videoPlaying = FALSE
  /\ audioPaused = TRUE
  /\ audioTime = 0
  /\ played = FALSE
  /\ ended = 0

\* AppComponent's field initialisers and constructor: the effect has run once
\* on the null service progress, and addCharacter has added one profile.
InitApp ==
  /\ status = "idle"
  /\ audioFile = NULL
  /\ audioUrl = NULL
  /\ characters = <<BlankCharacter(1)>>
  /\ storyContext = ""
  /\ generatedClips = <<>>
  /\ errorMsg = ""
  /\ progress = Prog("Starting", 0, 1)
  /\ svcProgress = NoProgress
  /\ effectPending = FALSE
  /\ now = 1
  /\ uploads = 0
  /\ runs = [r \in RunIds |-> NoRun]
  /\ nextRun = 1
  /\ abandoned = {}
  /\ InitPlayer

\* no generateVideoClip call is being followed
InitClipIdle ==
  /\ cpc = "idle"
  /\ characterPhoto = NULL
  /\ opDone = FALSE
  /\ wait = 0
  /\ deadline = 0
  /\ waits = <<>>
  /\ seenAt = 0
  /\ result = "none"
  /\ segTimes = [startTime |-> 0, endTime |-> 0]
  /\ durationSeconds = NULL

Init ==
  /\ InitApp
  /\ InitClipIdle
  /\ apiKey \in BOOLEAN

\* ------------------------------------------------------ user edit actions
\* URL.createObjectURL returns a handle never returned before: the handle of
\* the u-th picked file is u, the handle of the clip that run r downloads for
\* its k-th segment (k from 0) is ClipBlob(r, k).
FileBlob(u) == u
ClipBlob(r, k) == MaxUploads + (r - 1) * (MaxSegs + 1) + k + 1

HandleFileChange ==
  /\ uploads < MaxUploads
  /\ audioFile' = uploads + 1
  /\ audioUrl' = FileBlob(uploads + 1)
  /\ uploads' = uploads + 1
  /\ UNCHANGED <<status, characters, storyContext, generatedClips, errorMsg,
                 progress, svcVars, apiKey, now, runVars, clipVars, playVars>>

HandleContextInput ==
  /\ \E v \in Texts :
       /\ v # storyContext
       /\ storyContext' = v
  /\ UNCHANGED <<status, audioFile, audioUrl, characters, generatedClips,
                 errorMsg, progress, svcVars, envVars, runVars, clipVars, playVars>>

\* characters.update(chars => [...chars, {id: `char_${Date.now()}`, ...}])
addCharacter(chars, t) == Append(chars, BlankCharacter(t))

\* Date.now() read by a handler: the clock has not gone back since the last
\* reading, and may have advanced
ClockReadings == {t \in now..(now + 1) : t <= MaxNow}

\* (the roster is followed up to `limit` characters)
AddCharacterUpTo(limit) ==
  /\ Len(characters) < limit
  /\ \E t \in ClockReadings :
       /\ now' = t
       /\ characters' = addCharacter(characters, t)
  /\ UNCHANGED <<status, audioFile, audioUrl, storyContext, generatedClips,
                 errorMsg, progress, svcVars, apiKey, uploads, runVars,
                 clipVars, playVars>>

AddCharacter == AddCharacterUpTo(MaxChars)

\* chars.filter(c => c.id !== id)
removeCharacter(chars, id) == SelectSeq(chars, LAMBDA c : c.id # id)

RemoveCharacter ==
  /\ \E k \in 1..Len(characters) :
       characters' = removeCharacter(characters, characters[k].id)
  /\ UNCHANGED <<status, audioFile, audioUrl, storyContext, generatedClips,
                 errorMsg, progress, svcVars, envVars, runVars, clipVars, playVars>>

\* chars.map(c => (c.id === id ? { ...c, [field]: value } : c))
updateCharacter(chars, id, field, value) ==
  [k \in 1..Len(chars) |->
     IF chars[k].id = id
     THEN IF field = "name" THEN [chars[k] EXCEPT !.name = value]
          ELSE [chars[k] EXCEPT !.description = value]
     ELSE chars[k]]

UpdateCharacter ==
  /\ \E k \in 1..Len(characters), field \in {"name", "description"},
        value \in Texts :
       /\ characters' = updateCharacter(characters, characters[k].id, field, value)
       /\ characters' # characters
  /\ UNCHANGED <<status, audioFile, audioUrl, storyContext, generatedClips,
                 errorMsg, progress, svcVars, envVars, runVars, clipVars, playVars>>

HandleCharacterPhoto ==
  /\ uploads < MaxUploads
  /\ \E k \in 1..Len(characters) :
       characters' = [j \in 1..Len(characters) |->
                        IF characters[j].id = characters[k].id
                        THEN [characters[j] EXCEPT !.photoFile = uploads + 1,
                                                   !.photoUrl = FileBlob(uploads + 1)]
                        ELSE characters[j]]
  /\ uploads' = uploads + 1
  /\ UNCHANGED <<status, audioFile, audioUrl, storyContext, generatedClips,
                 errorMsg, progress, svcVars, apiKey, now, runVars, clipVars, playVars>>

\* computed(() => p.total === 0 ? 0 : (p.current / p.total) * 100), to the
\* whole percent below (exact whenever the quotient is a whole number)
progressPercentage(p) ==
  IF p.total = 0 THEN 0 ELSE (p.current * 100) \div p.total

\* effect(() => { const p = geminiService.progress(); if (p) progress.set(p) })
\* scheduled whenever the service signal is set, run some time later.
RunEffect ==
  /\ effectPending
  /\ effectPending' = FALSE
  /\ progress' = IF svcProgress # NoProgress THEN svcProgress ELSE progress
  /\ UNCHANGED <<status, audioFile, audioUrl, characters, storyContext,
                 generatedClips, errorMsg, svcProgress, envVars, runVars,
                 clipVars, playVars>>

\* ---------------------------------------------------------- generateStory
\* A frame of generateStory: pc is where the invocation is suspended
\* (readAudio, segment, clip) or how it ended (done: after the try block,
\* caught: after the catch block); i is the loop variable; calls are the
\* values of i generateVideoClip has been called with, in order; photo is the
\* characterPhoto argument of the call in flight.
\* The Segmenter's answer after JSON.parse: a list of n <= MaxSegs segments in
\* transcript order. `run` is the identity of the parsed list, startTime the
\* segment's position; the list attributes its segments to no character
\* (NULL) or to one character of the roster.
SegmentInputsOf(lengths) ==
  lengths \X ({NULL} \cup {characters[k].id : k \in 1..Len(characters)})

SegmentInputs == SegmentInputsOf(0..MaxSegs)

MakeSegments(r, n, cid) ==
  [k \in 1..n |-> [run |-> r, startTime |-> k, endTime |-> k + 1,
                   characterId |-> cid]]

\* this.characters().find(c => c.id === segment.characterId)?.photoFile ?? null
FindPhoto(chars, segment) ==
  LET hits == {k \in 1..Len(chars) : chars[k].id = segment.characterId}
  IN IF hits = {} THEN NULL
     ELSE chars[CHOOSE k \in hits : \A j \in hits : k <= j].photoFile

\* catch (error) { errorMsg.set(message); status.set('error');
\*                 progress.update(p => ({...p, stage: 'Error', message})) }
\* `clips` and `prog` are the signal values the catch block is entered with;
\* the invocation ends in the catch block (pc "caught").
\* (variant: a catch block that rolls the clip list back)
CatchRollsBack(r, frame, message, clips, prog) ==
  /\ errorMsg' = message
  /\ status' = "error"
  /\ progress' = [prog EXCEPT !.stage = "Error"]
  /\ generatedClips' = <<>>
  /\ runs' = [runs EXCEPT ![r] = [frame EXCEPT !.pc = "caught"]]

\* (variant: a catch block that starts the run again from the segmentation)
CatchRetries(r, frame, message, clips, prog) ==
  /\ errorMsg' = message
  /\ status' = "processing"
  /\ progress' = [prog EXCEPT !.stage = "Error"]
  /\ generatedClips' = clips
  /\ runs' = [runs EXCEPT ![r] = [frame EXCEPT !.pc = "readAudio"]]

Catch(r, frame, message, clips, prog) ==
  /\ errorMsg' = message
  /\ status' = "error"
  /\ progress' = [prog EXCEPT !.stage = "Error"]
  /\ generatedClips' = clips
  /\ runs' = [runs EXCEPT ![r] = [frame EXCEPT !.pc = "caught"]]

\* generatedClips.update(clips => [...clips, { segment, blobUrl }])
\* (variant: the new clip is put in front)
AppendClipInFront(clips, segment, blobUrl) ==
  <<[segment |-> segment, blobUrl |-> blobUrl]>> \o clips

AppendClip(clips, segment, blobUrl) ==
  Append(clips, [segment |-> segment, blobUrl |-> blobUrl])

\* The for loop from its test `i < segments.length` to the next suspension:
\* either the call of generateVideoClip for segment i (which throws at once,
\* before any request, when the credential is absent), or the loop's exit.
\* `clips` and `prog` are the signal values the loop is entered with.
Loop(r, frame, clips, prog) ==
  IF frame.i < Len(frame.segments)
  THEN LET segment == frame.segments[frame.i + 1]
           shown == [prog EXCEPT !.current = frame.i]
           called == [frame EXCEPT !.calls = Append(@, frame.i),
                                   !.photo = FindPhoto(characters, segment)]
       IN IF apiKey
          THEN /\ progress' = shown
               /\ generatedClips' = clips
               /\ runs' = [runs EXCEPT ![r] = [called EXCEPT !.pc = "clip"]]
               /\ UNCHANGED <<status, errorMsg>>
          ELSE Catch(r, called, MsgNoKey, clips, shown)
  ELSE /\ progress' = Prog("Finished", Len(frame.segments),
                           Len(frame.segments))
       /\ status' = "complete"
       /\ generatedClips' = clips
       /\ runs' = [runs EXCEPT ![r] = [frame EXCEPT !.pc = "done"]]
       /\ UNCHANGED errorMsg

\* generateStory up to its first suspension: the guard, the three sets, and
\* transcribeAndSegmentAudio up to `await this.fileToGenerativePart(audioFile)`.
\* transcribeAndSegmentAudio does not look at the key: it hands it to the
\* GoogleGenAI constructor, which is not code of this repository and which,
\* given no key, either builds a client all the same or throws; the throw
\* rejects the call before the service progress is set and reaches the catch
\* block in the same turn.
GenerateStory ==
  /\ nextRun <= MaxRuns
  /\ audioFile # NULL
  /\ nextRun' = nextRun + 1
  /\ \/ /\ status' = "processing"
        /\ generatedClips' = <<>>
        /\ errorMsg' = ""
        /\ svcProgress' = Prog("Analyzing audio", 0, 1)
        /\ effectPending' = TRUE
        /\ runs' = [runs EXCEPT ![nextRun] = [NoRun EXCEPT !.pc = "readAudio"]]
        /\ UNCHANGED progress
     \/ /\ ~apiKey
        /\ Catch(nextRun, NoRun, MsgClientFailed, <<>>, progress)
        /\ UNCHANGED svcVars
  /\ UNCHANGED <<audioFile, audioUrl, characters, storyContext, envVars,
                 abandoned, clipVars, playVars>>

\* the FileReader delivers the audio: the request to the Segmenter goes out
ReadAudioResolves(r) ==
  /\ runs[r].pc = "readAudio"
  /\ runs' = [runs EXCEPT ![r].pc = "segment"]
  /\ UNCHANGED <<appVars, svcVars, envVars, nextRun, abandoned, clipVars, playVars>>

\* the FileReader fails: the await is outside transcribeAndSegmentAudio's try,
\* so the rejection reaches generateStory's catch as it is
ReadAudioFails(r) ==
  /\ runs[r].pc = "readAudio"
  /\ Catch(r, runs[r], MsgReadFailed, generatedClips, progress)
  /\ UNCHANGED <<audioFile, audioUrl, characters, storyContext, svcVars,
                 envVars, nextRun, abandoned, clipVars, playVars>>

\* generateContent answers and the text parses: the service reports 1/1,
\* generateStory sets the 'Generating clips' progress and enters the loop
\* (`inputs` are the answers considered; the call that generateStory makes in
\* the loop is followed by the caller of this definition)
SegmentAnswers(r, inputs) ==
  /\ runs[r].pc = "segment"
  /\ \E in \in inputs :
       LET segments == MakeSegments(r, in[1], in[2])
       IN Loop(r, [runs[r] EXCEPT !.segments = segments, !.i = 0],
               generatedClips,
               Prog("Generating clips", 0, Len(segments)))
  /\ svcProgress' = Prog("Analyzing audio", 1, 1)
  /\ effectPending' = TRUE
  /\ UNCHANGED <<audioFile, audioUrl, characters, storyContext, envVars,
                 nextRun, abandoned, playVars>>

SegmentResolves(r) ==
  /\ SegmentAnswers(r, SegmentInputs)
  /\ UNCHANGED clipVars

\* generateContent fails, or its text does not parse: the service reports
\* 'Error' and throws 'Failed to analyze audio: ...'
SegmentFails(r) ==
  /\ runs[r].pc = "segment"
  /\ svcProgress' = Prog("Error", 1, 1)
  /\ effectPending' = TRUE
  /\ Catch(r, runs[r], MsgSegmentFailed, generatedClips, progress)
  /\ UNCHANGED <<audioFile, audioUrl, characters, storyContext, envVars,
                 nextRun, abandoned, clipVars, playVars>>

\* generateVideoClip returns a fresh blob handle: the clip is appended and the
\* loop goes on with i + 1
ClipReturns(r) ==
  /\ runs[r].pc = "clip"
  /\ Loop(r, [runs[r] EXCEPT !.i = @ + 1],
          AppendClip(generatedClips, runs[r].segments[runs[r].i + 1],
                     ClipBlob(r, runs[r].i)),
          progress)
  /\ UNCHANGED <<audioFile, audioUrl, characters, storyContext, svcVars,
                 envVars, nextRun, abandoned, playVars>>

ClipResolves(r) ==
  /\ ClipReturns(r)
  /\ UNCHANGED clipVars

\* generateVideoClip throws `message`
ClipThrows(r, message) ==
  /\ runs[r].pc = "clip"
  /\ Catch(r, runs[r], message, generatedClips, progress)
  /\ UNCHANGED <<audioFile, audioUrl, characters, storyContext, svcVars,
                 envVars, nextRun, abandoned, playVars>>

\* generateVideoClip throws one of its errors
ClipFails(r) ==
  /\ \E message \in ClipErrors :
       /\ (message = MsgReadFailed) => (runs[r].photo # NULL)
       /\ ClipThrows(r, message)
  /\ UNCHANGED clipVars

\* ------------------------------------------------------------- startOver
\* (variant: the roster is not emptied before the blank profile is added)
StartOverKeepsRoster ==
  /\ status' = "idle"
  /\ audioFile' = NULL
  /\ audioUrl' = NULL
  /\ storyContext' = ""
  /\ generatedClips' = <<>>
  /\ errorMsg' = ""
  /\ svcProgress' = NoProgress
  /\ effectPending' = (effectPending \/ svcProgress # NoProgress)
  /\ \E t \in ClockReadings :
       /\ now' = t
       /\ characters' = addCharacter(characters, t)
  /\ abandoned' = abandoned \cup {r \in RunIds : runs[r].pc # "none"}
  /\ UNCHANGED <<progress, apiKey, uploads, runs, nextRun, clipVars, playVars>>

\* (variant: the clip list is not emptied)
StartOverKeepsClips ==
  /\ status' = "idle"
  /\ audioFile' = NULL
  /\ audioUrl' = NULL
  /\ storyContext' = ""
  /\ generatedClips' = generatedClips
  /\ errorMsg' = ""
  /\ svcProgress' = NoProgress
  /\ effectPending' = (effectPending \/ svcProgress # NoProgress)
  /\ \E t \in ClockReadings :
       /\ now' = t
       /\ characters' = addCharacter(<<>>, t)
  /\ abandoned' = abandoned \cup {r \in RunIds : runs[r].pc # "none"}
  /\ UNCHANGED <<progress, apiKey, uploads, runs, nextRun, clipVars, playVars>>

\* The seven sets of startOver, then addCharacter. Setting the service
\* progress to null schedules the effect only if the value changes. Every
\* invocation of generateStory made so far is now abandoned.
StartOver ==
  /\ status' = "idle"
  /\ audioFile' = NULL
  /\ audioUrl' = NULL
  /\ storyContext' = ""
  /\ generatedClips' = <<>>
  /\ errorMsg' = ""
  /\ svcProgress' = NoProgress
  /\ effectPending' = (effectPending \/ svcProgress # NoProgress)
  /\ \E t \in ClockReadings :
       /\ now' = t
       /\ characters' = addCharacter(<<>>, t)
  /\ abandoned' = abandoned \cup {r \in RunIds : runs[r].pc # "none"}
  /\ UNCHANGED <<progress, apiKey, uploads, runs, nextRun, clipVars, playVars>>

\* ------------------------------------------------------- specifications
Quiet == \A r \in RunIds : ~InFlight(r)

Edit ==
  \/ HandleFileChange
  \/ HandleContextInput
  \/ AddCharacter
  \/ RemoveCharacter
  \/ UpdateCharacter
  \/ HandleCharacterPhoto

Resolve ==
  \E r \in RunIds :
    \/ ReadAudioResolves(r)
    \/ ReadAudioFails(r)
    \/ SegmentResolves(r)
    \/ SegmentFails(r)
    \/ ClipResolves(r)
    \/ ClipFails(r)

Next ==
  \/ HandleFileChange
  \/ RunEffect
  \/ GenerateStory
  \/ StartOver
  \/ Resolve

Spec == Init /\ [][Next]_vars

EditSolo == Quiet /\ Edit
GenerateStorySolo == Quiet /\ GenerateStory
StartOverSolo == Quiet /\ StartOver

NextSolo ==
  \/ EditSolo
  \/ RunEffect
  \/ GenerateStorySolo
  \/ StartOverSolo
  \/ Resolve

SpecSolo == Init /\ [][NextSolo]_vars

\* The roster alone, up to MaxChars + 1 characters, with resets.
NextRoster ==
  \/ AddCharacterUpTo(MaxChars + 1)
  \/ RemoveCharacter
  \/ UpdateCharacter
  \/ HandleCharacterPhoto
  \/ StartOver

SpecRoster == Init /\ [][NextRoster]_vars

\* One run at a time over segment lists of up to MaxSegs + 1 segments, with
\* the effect running whenever it is pending.
HandleFileChangeSolo == Quiet /\ HandleFileChange

ResolveLong ==
  \E r \in RunIds :
    \/ ReadAudioResolves(r)
    \/ ReadAudioFails(r)
    \/ SegmentAnswers(r, SegmentInputsOf(0..(MaxSegs + 1)))
         /\ UNCHANGED clipVars
    \/ SegmentFails(r)
    \/ ClipResolves(r)
    \/ ClipFails(r)

NextLong ==
  \/ HandleFileChangeSolo
  \/ RunEffect
  \/ GenerateStorySolo
  \/ ResolveLong

SpecLong == Init /\ [][NextLong]_vars

\* ------------------------------------------------------ generateVideoClip
\* One call, followed from its entry to its return or throw.
\*   cpc       where the call is suspended: readPhoto (fileToBase64), start
\*             (generateVideos), sleep (setTimeout), poll
\*             (getVideosOperation), download (fetch), blob (response.blob),
\*             or ended: returned, threw
\*   opDone    operation.done of the job handle last received
\*   seenAt    the clock reading when that job handle was received
\*   waits     the delays handed to setTimeout so far, in order
\*   result    the blob handle's tag, or the message thrown
\*   segTimes  startTime and endTime of the segment argument, in ticks
\*   durationSeconds   config.durationSeconds of the start request, once it
\*             has been built
InitCall ==
  /\ InitApp
  /\ apiKey \in BOOLEAN
  /\ characterPhoto \in {NULL, 1}
  /\ cpc = "called"
  /\ opDone = FALSE
  /\ wait = 0
  /\ deadline = 0
  /\ waits = <<>>
  /\ seenAt = 0
  /\ result = "none"
  /\ durationSeconds = NULL

\* the poll loop is followed for one segment, MaxTime ticks long
InitClip ==
  /\ InitCall
  /\ segTimes = [startTime |-> 0, endTime |-> MaxTime]

\* Math.round(x) for x = d / Ticks: the nearest integer, a tie going up
Round(d) == (2 * d + Ticks) \div (2 * Ticks)

\* const duration = Math.round(segment.endTime - segment.startTime);
\* const clipDuration = Math.max(5, Math.min(8, duration));
\* (variant: the lower limit is not applied)
clipDurationNoFloor(times) ==
  Min(MaxClipSeconds, Round(times.endTime - times.startTime))

clipDuration(times) ==
  Max(MinClipSeconds,
      Min(MaxClipSeconds, Round(times.endTime - times.startTime)))

\* the code from the photo read to the call of generateVideos: the start
\* request goes out with the clamped duration
StartRequest ==
  /\ cpc' = "start"
  /\ durationSeconds' = clipDuration(segTimes)

\* a timer or a response comes this much later than the earliest possible
Delays == {k * DelayUnit : k \in 0..MaxPollDelay}

\* wait = Math.min(wait * 1.5, 15000); every value the loop reaches is a
\* multiple of 2, so the product is the integer (wait * 3) \div 2
\* (variant: the growth is not capped)
NextWaitUncapped(w) == (w * 3) \div 2

NextWait(w) == Min((w * 3) \div 2, WaitCap)

\* the time limit counted from the clock reading t
Deadline(t) == t + DeadlineMs

\* Date.now() > deadline
PastDeadline(t, dl) == t > dl

\* (variant: the error is recorded and the call polls on)
ThrowAndPollOn(message) ==
  /\ cpc' = "poll"
  /\ result' = message

Throw(message) ==
  /\ cpc' = "threw"
  /\ result' = message

\* `while (!operation.done)` evaluated at clock reading t with deadline dl and
\* the next delay w, then the code after the loop up to the fetch. An
\* operation that is done carries an error, or no download link, or a link.
ClipLoop(done, outcome, t, dl, w) ==
  IF ~done
  THEN IF PastDeadline(t, dl)
       THEN Throw(MsgTimedOut) /\ UNCHANGED waits
       ELSE /\ cpc' = "sleep"
            /\ waits' = Append(waits, w)
            /\ UNCHANGED result
  ELSE /\ UNCHANGED waits
       /\ IF outcome = "error" THEN Throw(MsgJobFailed)
          ELSE IF outcome = "nolink" THEN Throw(MsgNoLink)
          ELSE cpc' = "download" /\ UNCHANGED result

Outcomes == {"error", "nolink", "link"}

\* entry: the credential check, then the photo read or the start request
ClipCall ==
  /\ cpc = "called"
  /\ IF ~apiKey THEN Throw(MsgNoKey) /\ UNCHANGED durationSeconds
     ELSE /\ IF characterPhoto # NULL
             THEN cpc' = "readPhoto" /\ UNCHANGED durationSeconds
             ELSE StartRequest
          /\ UNCHANGED result
  /\ UNCHANGED <<appVars, playVars, svcVars, envVars, runVars, argVars, opDone, wait,
                 deadline, waits, seenAt>>

ReadPhotoResolves ==
  /\ cpc = "readPhoto"
  /\ StartRequest
  /\ UNCHANGED <<appVars, playVars, svcVars, envVars, runVars, argVars, opDone, wait,
                 deadline, waits, seenAt, result>>

\* reader.onerror = reject, outside every try of generateVideoClip
ReadPhotoFails ==
  /\ cpc = "readPhoto"
  /\ Throw(MsgReadFailed)
  /\ UNCHANGED <<appVars, playVars, svcVars, envVars, runVars, argVars, durationSeconds,
                 opDone, wait, deadline, waits, seenAt>>

\* generateVideos returns the job handle: wait and deadline are set and the
\* loop is entered
StartResolves ==
  /\ cpc = "start"
  /\ \E d \in Delays, done \in BOOLEAN, outcome \in Outcomes :
       /\ now' = now + d
       /\ opDone' = done
       /\ seenAt' = now'
       /\ wait' = InitialWait
       /\ deadline' = Deadline(now')
       /\ ClipLoop(done, outcome, now', deadline', wait')
  /\ UNCHANGED <<appVars, playVars, svcVars, apiKey, uploads, runVars, argVars,
                 durationSeconds>>

StartFails ==
  /\ cpc = "start"
  /\ Throw(MsgStartFailed)
  /\ UNCHANGED <<appVars, playVars, svcVars, envVars, runVars, argVars, durationSeconds,
                 opDone, wait, deadline, waits, seenAt>>

\* the timer fires, no earlier than `wait` after it was set: wait grows and
\* the poll goes out
TimerFires ==
  /\ cpc = "sleep"
  /\ \E d \in Delays : now' = now + wait + d
  /\ wait' = NextWait(wait)
  /\ cpc' = "poll"
  /\ UNCHANGED <<appVars, playVars, svcVars, apiKey, uploads, runVars, argVars,
                 durationSeconds, opDone, deadline, waits, seenAt, result>>

\* getVideosOperation answers with the job handle's new state
PollResolves ==
  /\ cpc = "poll"
  /\ \E d \in Delays, done \in BOOLEAN, outcome \in Outcomes :
       /\ now' = now + d
       /\ opDone' = done
       /\ seenAt' = now'
       /\ ClipLoop(done, outcome, now', deadline, wait)
  /\ UNCHANGED <<appVars, playVars, svcVars, apiKey, uploads, runVars, argVars,
                 durationSeconds, wait, deadline>>

PollFails ==
  /\ cpc = "poll"
  /\ Throw(MsgPollFailed)
  /\ UNCHANGED <<appVars, playVars, svcVars, envVars, runVars, argVars, durationSeconds,
                 opDone, wait, deadline, waits, seenAt>>

\* fetch answers: a response that is not ok throws inside the try
DownloadResolves ==
  /\ cpc = "download"
  /\ \E ok \in BOOLEAN :
       IF ok THEN cpc' = "blob" /\ UNCHANGED result
       ELSE Throw(MsgDownloadFailed)
  /\ UNCHANGED <<appVars, playVars, svcVars, envVars, runVars, argVars, durationSeconds,
                 opDone, wait, deadline, waits, seenAt>>

DownloadFails ==
  /\ cpc \in {"download", "blob"}
  /\ Throw(MsgDownloadFailed)
  /\ UNCHANGED <<appVars, playVars, svcVars, envVars, runVars, argVars, durationSeconds,
                 opDone, wait, deadline, waits, seenAt>>

\* response.blob() delivers the bytes: return URL.createObjectURL(blob)
BlobResolves ==
  /\ cpc = "blob"
  /\ cpc' = "returned"
  /\ result' = "blob"
  /\ UNCHANGED <<appVars, playVars, svcVars, envVars, runVars, argVars, durationSeconds,
                 opDone, wait, deadline, waits, seenAt>>

NextClip ==
  \/ ClipCall
  \/ ReadPhotoResolves
  \/ ReadPhotoFails
  \/ StartResolves
  \/ StartFails
  \/ TimerFires
  \/ PollResolves
  \/ PollFails
  \/ DownloadResolves
  \/ DownloadFails
  \/ BlobResolves

SpecClip == InitClip /\ [][NextClip]_vars

\* generateVideoClip up to its start request, for every pair of segment times
\* (seconds counted in ticks; one time far beyond 100 s)
SegmentTimes == (0..MaxTime) \cup {MaxTime * MaxTime}

InitStart ==
  /\ InitCall
  /\ segTimes \in [startTime : SegmentTimes, endTime : SegmentTimes]

NextStart ==
  \/ ClipCall
  \/ ReadPhotoResolves
  \/ ReadPhotoFails
  \/ StartFails

SpecStart == InitStart /\ [][NextStart]_vars

\* ------------------------------------------- generateStory with its calls
\* One run of generateStory in which every generateVideoClip call is followed
\* through its poll loop. Timers and answers are punctual here (the late ones
\* are in SpecClip); the clock stands still outside the calls.
\* The call frame of generateVideoClip as generateStory's loop leaves it:
\* entered past the credential check (which Loop has made) when the run is
\* now suspended in a call, gone otherwise.
CallEnters(r) ==
  IF runs'[r].pc = "clip"
  THEN LET segment == runs'[r].segments[runs'[r].i + 1]
       IN /\ characterPhoto' = runs'[r].photo
          /\ segTimes' = [startTime |-> segment.startTime * Ticks,
                          endTime |-> segment.endTime * Ticks]
          /\ opDone' = FALSE
          /\ wait' = 0
          /\ deadline' = 0
          /\ waits' = <<>>
          /\ seenAt' = 0
          /\ result' = "none"
          /\ IF characterPhoto' # NULL
             THEN cpc' = "readPhoto" /\ durationSeconds' = NULL
             ELSE cpc' = "start" /\ durationSeconds' = clipDuration(segTimes')
  ELSE /\ cpc' = "idle"
       /\ characterPhoto' = NULL
       /\ opDone' = FALSE
       /\ wait' = 0
       /\ deadline' = 0
       /\ waits' = <<>>
       /\ seenAt' = 0
       /\ result' = "none"
       /\ segTimes' = [startTime |-> 0, endTime |-> 0]
       /\ durationSeconds' = NULL

\* a timer fires when it is due, an answer comes at once
Punctual == now' \in {now, now + wait}

GenerateStoryFirst == nextRun = 1 /\ GenerateStory

HandleCharacterPhotoSolo == Quiet /\ HandleCharacterPhoto

\* the continuations of generateStory
RunStep(r) ==
  \/ ReadAudioResolves(r)
  \/ ReadAudioFails(r)
  \/ SegmentAnswers(r, SegmentInputs) /\ CallEnters(r)
  \/ SegmentFails(r)
  \/ cpc = "returned" /\ ClipReturns(r) /\ CallEnters(r)
  \/ cpc = "threw" /\ ClipThrows(r, result) /\ CallEnters(r)

\* the continuations of the generateVideoClip call in flight
CallStep ==
  \/ ReadPhotoResolves
  \/ ReadPhotoFails
  \/ StartResolves /\ Punctual
  \/ StartFails
  \/ TimerFires /\ Punctual
  \/ PollResolves /\ Punctual
  \/ PollFails
  \/ DownloadResolves
  \/ DownloadFails
  \/ BlobResolves

Pending == CallStep \/ \E r \in RunIds : RunStep(r)

NextLinked ==
  \/ HandleFileChangeSolo
  \/ HandleCharacterPhotoSolo
  \/ RunEffect
  \/ GenerateStoryFirst
  \/ Pending

SpecLinked == Init /\ [][NextLinked]_vars

\* every pending request, file read and timer is answered in the end
SpecLinkedFair == SpecLinked /\ WF_vars(Pending)

\* ---------------------------------------------------------------- playback
\* computed(() => generatedClips()[currentClipIndex()]?.blobUrl ?? '')
currentClipUrl(clips, index) ==
  IF index + 1 \in 1..Len(clips) THEN clips[index + 1].blobUrl ELSE NULL

\* nextIndex < this.generatedClips().length
\* (variant: the last index is taken to have a successor)
HasNextInclusive(nextIndex, clips) == nextIndex <= Len(clips)

HasNext(nextIndex, clips) == nextIndex < Len(clips)

\* the view is initialised: the two @ViewChild elements are there
ViewInit ==
  /\ ~viewReady
  /\ viewReady' = TRUE
  /\ UNCHANGED <<appVars, svcVars, envVars, runVars, clipVars,
                 currentClipIndex, videoSrc, videoPlaying, audioPaused,
                 audioTime, played, ended>>

\* playStory(): returns at once without the elements or without clips
PlayStory ==
  /\ viewReady
  /\ Len(generatedClips) # 0
  /\ currentClipIndex' = 0
  /\ videoSrc' = currentClipUrl(generatedClips, 0)
  /\ audioTime' = 0
  /\ audioPaused' = FALSE
  /\ videoPlaying' = TRUE
  /\ played' = TRUE
  /\ ended' = 0
  /\ UNCHANGED <<appVars, svcVars, envVars, runVars, clipVars, viewReady>>

\* handleVideoEnded(): the video element has played its source to the end
HandleVideoEnded ==
  /\ viewReady
  /\ ended < MaxEnded
  /\ ended' = ended + 1
  /\ LET nextIndex == currentClipIndex + 1
     IN IF HasNext(nextIndex, generatedClips)
        THEN /\ currentClipIndex' = nextIndex
             /\ videoSrc' = currentClipUrl(generatedClips, nextIndex)
             /\ videoPlaying' = TRUE
             /\ UNCHANGED audioPaused
        ELSE /\ audioPaused' = TRUE
             /\ videoPlaying' = FALSE
             /\ UNCHANGED <<currentClipIndex, videoSrc>>
  /\ UNCHANGED <<appVars, svcVars, envVars, runVars, clipVars, viewReady,
                 audioTime, played>>

\* the audio element plays on: its position advances while it is not paused
AudioPlays ==
  /\ ~audioPaused
  /\ audioTime < MaxAudioTime
  /\ audioTime' = audioTime + 1
  /\ UNCHANGED <<appVars, svcVars, envVars, runVars, clipVars,
                 currentClipIndex, viewReady, videoSrc, videoPlaying,
                 audioPaused, played, ended>>

\* The component after a run over n segments, attributed to character cid or
\* to none, has completed (status 'complete', the n clips in the list),
\* nothing played yet.
CompletedRun(n, cid) ==
  LET segments == MakeSegments(1, n, cid)
  IN /\ status = "complete"
     /\ audioFile = 1
     /\ audioUrl = FileBlob(1)
     /\ characters = <<BlankCharacter(1)>>
     /\ storyContext = ""
     /\ generatedClips = [k \in 1..n |-> [segment |-> segments[k],
                                          blobUrl |-> ClipBlob(1, k - 1)]]
     /\ errorMsg = ""
     /\ progress = Prog("Finished", n, n)
     /\ svcProgress = Prog("Analyzing audio", 1, 1)
     /\ effectPending = FALSE
     /\ apiKey = TRUE
     /\ now = 1
     /\ uploads = 1
     /\ runs = [r \in RunIds |->
                 IF r = 1
                 THEN [pc |-> "done", segments |-> segments, i |-> n,
                       calls |-> [k \in 1..n |-> k - 1], photo |-> NULL]
                 ELSE NoRun]
     /\ nextRun = 2
     /\ abandoned = {}

InitPlay ==
  /\ \E n \in 0..MaxClips, cid \in {NULL, 1} : CompletedRun(n, cid)
  /\ InitClipIdle
  /\ InitPlayer

NextPlay ==
  \/ ViewInit
  \/ PlayStory
  \/ HandleVideoEnded
  \/ AudioPlays

SpecPlay == InitPlay /\ [][NextPlay]_vars

\* ================================================================ claims
\* The run the clip list belongs to: the latest invocation of generateStory,
\* unless startOver has run since it started (0: none).
CurrentRun ==
  IF nextRun > 1 /\ (nextRun - 1) \notin abandoned THEN nextRun - 1 ELSE 0

\* the clips of the first n segments of run r, in order, each with the blob
\* handle the call for that segment returned
ClipsOf(r, n) ==
  [k \in 1..n |-> [segment |-> runs[r].segments[k],
                   blobUrl |-> ClipBlob(r, k - 1)]]

\* C1: a run over N >= 1 segments in which every generation succeeded has
\* called generateVideoClip exactly N times, for segments 0..N-1 in that
\* order, and has ended with status 'complete' and a clip list of length N
\* whose k-th entry holds the k-th segment and the k-th call's blob handle.
C1_AllSucceed ==
  \A r \in RunIds :
    (r = CurrentRun /\ runs[r].pc = "done" /\ Len(runs[r].segments) >= 1)
      => /\ runs[r].calls = [k \in 1..Len(runs[r].segments) |-> k - 1]
         /\ status = "complete"
         /\ Len(generatedClips) = Len(runs[r].segments)
         /\ generatedClips = ClipsOf(r, Len(runs[r].segments))

C1_Witness ==
  \E r \in RunIds :
    /\ r = CurrentRun
    /\ runs[r].pc = "done"
    /\ Len(runs[r].segments) = MaxSegs
    /\ Len(generatedClips) = MaxSegs

\* C2: a run that ended in the catch block because the call for segment i
\* (1-based) was the first to fail has left exactly the i-1 clips of segments
\* 1..i-1 in order, status 'error' and a non-empty errorMsg; a run whose
\* segmentation failed has left status 'error' and no clip.
C2_FirstFailure ==
  \A r \in RunIds :
    (r = CurrentRun /\ runs[r].pc = "caught")
      => /\ status = "error"
         /\ errorMsg # ""
         /\ IF runs[r].calls = <<>>
            THEN generatedClips = <<>>
            ELSE /\ runs[r].calls = [k \in 1..(runs[r].i + 1) |-> k - 1]
                 /\ runs[r].i < Len(runs[r].segments)
                 /\ Len(generatedClips) = runs[r].i
                 /\ generatedClips = ClipsOf(r, runs[r].i)

C2_Witness ==
  \E r \in RunIds :
    /\ r = CurrentRun
    /\ runs[r].pc = "caught"
    /\ runs[r].i = 1
    /\ Len(runs[r].segments) = MaxSegs
    /\ Len(generatedClips) = 1
    /\ status = "error"

\* C3: at most one generateVideoClip invocation is in flight, under any
\* interleaving of generateStory, startOver and the resolution of pending
\* calls.
C3_OneGenerationInFlight ==
  Cardinality({r \in RunIds : runs[r].pc = "clip"}) <= 1

\* C4: generatedClips is exactly the prefix of the current run's segment list
\* that has been generated so far, with no clip of an earlier or abandoned
\* run (and is empty when there is no current run).
C4_ClipsArePrefix ==
  IF CurrentRun = 0 THEN generatedClips = <<>>
  ELSE generatedClips = ClipsOf(CurrentRun, runs[CurrentRun].i)

\* C5: the resolution of a request of a run abandoned by startOver changes
\* neither status, generatedClips, errorMsg nor progress, and makes the run
\* issue no further generateVideoClip call.
C5_AbandonedRunIgnored ==
  [][\A r \in abandoned :
       (runs'[r] # runs[r])
         => /\ status' = status
            /\ generatedClips' = generatedClips
            /\ errorMsg' = errorMsg
            /\ progress' = progress
            /\ runs'[r].calls = runs[r].calls]_vars

\* C6: a step that takes status from 'error' or 'complete' to 'idle'
\* (startOver) leaves no clip, exactly one character with empty name and
\* description and no photo, no audio file or url, an empty context and an
\* empty error message.
C6_Reset ==
  [][(status \in {"error", "complete"} /\ status' = "idle")
       => /\ generatedClips' = <<>>
          /\ Len(characters') = 1
          /\ characters'[1].name = ""
          /\ characters'[1].description = ""
          /\ characters'[1].photoFile = NULL
          /\ characters'[1].photoUrl = NULL
          /\ audioFile' = NULL
          /\ audioUrl' = NULL
          /\ storyContext' = ""
          /\ errorMsg' = ""]_vars

\* startOver has run after a run ended and nothing has been done since
C6_Witness ==
  /\ status = "idle"
  /\ audioFile = NULL
  /\ \E r \in abandoned : runs[r].pc \in {"done", "caught"}
  /\ Len(characters) = 1

\* C7: status changes only along idle->processing, processing->complete,
\* processing->error, complete->idle and error->idle, and 'processing' is
\* entered only when an audio file is present.
C7_Edges ==
  [][(status' # status)
       => /\ <<status, status'>> \in {<<"idle", "processing">>,
                                      <<"processing", "complete">>,
                                      <<"processing", "error">>,
                                      <<"complete", "idle">>,
                                      <<"error", "idle">>}
          /\ (status' = "processing" => audioFile # NULL)]_vars

\* C8 as stated: generatedClips is non-empty only if status is 'processing'
\* or 'complete'.
C8_ClipsOnlyWhileProcessingOrComplete ==
  (generatedClips # <<>>) => (status \in {"processing", "complete"})

\* C8 amended: generatedClips is non-empty only if status is 'processing',
\* 'complete' or 'error', or an invocation of generateStory is still in
\* flight; with status 'idle' and no invocation in flight the list is empty.
C8_ClipsOnlyAfterGeneration ==
  (generatedClips # <<>>)
    => (status \in {"processing", "complete", "error"}
        \/ \E r \in RunIds : InFlight(r))

\* a run failed at its second segment: status 'error' with one clip kept
C8_Witness ==
  /\ status = "error"
  /\ Len(generatedClips) = 1
  /\ \A r \in RunIds : ~InFlight(r)

\* C9: the call never returns a blob handle, and never starts another wait
\* or poll, on the basis of a job state received after the deadline; a job
\* state received after the deadline ends the call with the 'timed out'
\* error. (The 10 minutes are counted from the return of generateVideos.)
C9_DeadlineIsFinal ==
  /\ (result = "blob") => (seenAt <= deadline)
  /\ (cpc \in {"sleep", "poll"}) => (seenAt <= deadline)
  /\ (seenAt > deadline /\ ~opDone) => (cpc = "threw" /\ result = MsgTimedOut)

\* C10: the delays handed to setTimeout are 5000, 7500, 11250, 15000,
\* 15000, ...
C10_Backoff ==
  \A k \in 1..Len(waits) :
    waits[k] = IF k = 1 THEN 5000
               ELSE IF k = 2 THEN 7500
               ELSE IF k = 3 THEN 11250
               ELSE 15000

\* the loop has waited at least six times
C10_Witness ==
  /\ Len(waits) >= 6
  /\ cpc = "sleep"

\* C11: the durationSeconds of the start request is an integer in 5..8, and
\* it is round(endTime - startTime) clamped to 5..8: 5 when the difference
\* is below 5.5 s, 8 when it is 7.5 s or more, and otherwise the integer
\* nearest to the difference (a tie going up).
C11_DurationClamped ==
  (cpc = "start")
    => LET d == segTimes.endTime - segTimes.startTime
           c == durationSeconds
       IN /\ c \in 5..8
          /\ (2 * d < 11 * Ticks) => (c = 5)
          /\ (2 * d >= 15 * Ticks) => (c = 8)
          /\ (2 * d >= 11 * Ticks /\ 2 * d < 15 * Ticks)
               => /\ (2 * c - 1) * Ticks <= 2 * d
                  /\ 2 * d < (2 * c + 1) * Ticks

\* the start request for a segment that ends before it starts
C11_Witness ==
  /\ cpc = "start"
  /\ segTimes.endTime < segTimes.startTime
  /\ durationSeconds = 5

\* C12: while the credential is absent no request to the external
\* capability is in flight: no segmentation request of any run, no
\* generateVideoClip call past its credential check, and no job start, poll
\* or download of a call.
C12_NoRequestWithoutCredential ==
  (~apiKey)
    => /\ \A r \in RunIds : runs[r].pc \notin {"segment", "clip"}
       /\ cpc \notin {"start", "sleep", "poll", "download", "blob"}

\* C13: a call of transcribeAndSegmentAudio (one that got its client built)
\* sets the service progress to 'Analyzing audio' 0/1 when it starts; when
\* it returns segments the service progress is 'Analyzing audio' 1/1; when
\* it fails, for whatever cause, the service progress has stage 'Error' and
\* the error it throws, which generateStory stores in errorMsg, is 'Failed
\* to analyze audio: ...'.
C13_SegmentationProgress ==
  [][\A r \in RunIds :
       /\ (runs[r].pc = "none" /\ runs'[r].pc = "readAudio")
            => (svcProgress' = Prog("Analyzing audio", 0, 1))
       /\ (runs[r].pc = "segment" /\ runs'[r].segments # <<>>)
            => (svcProgress' = Prog("Analyzing audio", 1, 1))
       /\ (runs[r].pc \in {"readAudio", "segment"}
              /\ runs'[r].pc = "caught" /\ runs'[r].calls = <<>>)
            => /\ svcProgress'.stage = "Error"
               /\ errorMsg' = MsgSegmentFailed]_vars

\* C14: once playStory has run on a list of N >= 1 clips, after k calls of
\* handleVideoEnded the index is k and the video source is clip k's blob
\* handle as long as k <= N-1, and they stay at the last clip for k >= N;
\* the audio plays on while k <= N-1 and is paused from the N-th call on; a
\* call that advances the video leaves the audio element as it is.
C14_Playback ==
  [][(played' /\ Len(generatedClips') >= 1)
       => LET N == Len(generatedClips')
              k == IF ended' <= N - 1 THEN ended' ELSE N - 1
          IN /\ currentClipIndex' = k
             /\ currentClipIndex' \in 0..(N - 1)
             /\ videoSrc' = generatedClips'[k + 1].blobUrl
             /\ audioPaused' = (ended' >= N)
             /\ (played /\ ended' = ended + 1 /\ ended' <= N - 1)
                  => (audioPaused' = audioPaused /\ audioTime' = audioTime)]_vars

\* three clips were played to the end and the video element ended again
C14_Witness ==
  /\ played
  /\ Len(generatedClips) = 3
  /\ ended = 4
  /\ currentClipIndex = 2
  /\ audioPaused

\* The blob handles URL.createObjectURL has returned so far: one for each
\* picked file, one for each clip a run has downloaded.
CreatedHandles ==
  {FileBlob(u) : u \in 1..uploads}
    \cup UNION {{ClipBlob(r, k) : k \in 0..(runs[r].i - 1)} : r \in RunIds}

\* the handles the component still refers to
HeldHandles ==
  ({audioUrl} \cup {characters[k].photoUrl : k \in 1..Len(characters)}
     \cup {generatedClips[k].blobUrl : k \in 1..Len(generatedClips)})
    \ {NULL}

\* the handles given back: the source calls URL.revokeObjectURL nowhere
ReleasedHandles == {}

\* C15: every blob handle that was created and that the component no
\* longer refers to (it was superseded, or dropped by startOver or by
\* generateStory clearing the clips) has been released.
C15_HandlesReleased ==
  (CreatedHandles \ HeldHandles) \subseteq ReleasedHandles

\* C16: the progress the component shows has 0 <= current <= total.
C16_ProgressInRange ==
  /\ 0 <= progress.current
  /\ progress.current <= progress.total

\* C17: when a run sets status to 'complete' (it leaves the try block),
\* every segment of the run has its clip in the list, in order, and the
\* progress has stage 'Finished', current = total and a percentage of 100,
\* for every length of the segment list, 0 included.
C17_CompleteIsFinished ==
  [][\A r \in RunIds :
       (runs[r].pc # "done" /\ runs'[r].pc = "done")
         => /\ status' = "complete"
            /\ Len(generatedClips') = Len(runs'[r].segments)
            /\ \A k \in 1..Len(runs'[r].segments) :
                 generatedClips'[k].segment = runs'[r].segments[k]
            /\ progress'.stage = "Finished"
            /\ progress'.current = progress'.total
            /\ progressPercentage(progress') = 100]_vars

\* C18: the characters of the roster have pairwise distinct ids.
C18_DistinctIds ==
  \A j, k \in 1..Len(characters) :
    (j # k) => (characters[j].id # characters[k].id)

\* a step in which generateStory's loop calls generateVideoClip
NewCall == \E r \in RunIds : runs'[r].calls # runs[r].calls

\* C19: nothing is retried. A run calls the Segmenter at most once and
\* generateVideoClip at most once for each segment, in order, and a run that
\* has failed makes no further step. Within one generateVideoClip call the
\* job start is requested once, the download once, and a call that has
\* thrown issues nothing more: the run it belongs to ends in its catch block.
C19_NoRetry ==
  [][/\ \A r \in RunIds :
          /\ (runs'[r].pc = "readAudio")
               => (runs[r].pc \in {"none", "readAudio"})
          /\ (runs'[r].pc = "segment")
               => (runs[r].pc \in {"readAudio", "segment"})
          /\ runs'[r].calls \in {runs[r].calls,
                                  Append(runs[r].calls, Len(runs[r].calls))}
          /\ (runs[r].pc = "caught") => (runs'[r] = runs[r])
     /\ (cpc' = "readPhoto" /\ cpc # "readPhoto") => NewCall
     /\ (cpc' = "start" /\ cpc # "start") => (NewCall \/ cpc = "readPhoto")
     /\ (cpc' = "download" /\ cpc # "download") => (cpc \in {"start", "poll"})
     /\ (cpc \in {"download", "blob"})
          => (cpc' \in {"download", "blob", "returned", "threw"})
     /\ (cpc = "threw") => (cpc' \in {"threw", "idle"})
     /\ (cpc = "threw" /\ cpc' = "idle")
          => \E r \in RunIds : runs[r].pc = "clip" /\ runs'[r].pc = "caught"]_vars

\* the download of a run's second clip failed and the run has ended
C19_Witness ==
  \E r \in RunIds :
    /\ runs[r].pc = "caught"
    /\ Len(runs[r].calls) = 2
    /\ errorMsg = MsgDownloadFailed
    /\ Len(generatedClips) = 1

\* C20: when every pending file read, request and timer is answered in the
\* end, a run that has set status 'processing' sets it to 'complete' or
\* 'error', and every generateVideoClip call returns or throws, whether
\* or not the job is ever reported done.
C20_RunsEnd ==
  /\ (status = "processing") ~> (status \in {"complete", "error"})
  /\ (cpc \in {"readPhoto", "start", "sleep", "poll", "download", "blob"})
       ~> (cpc \in {"returned", "threw"})

\* a run has ended because the job of its second clip was never done
C20_Witness ==
  /\ status = "error"
  /\ errorMsg = MsgTimedOut
  /\ Len(generatedClips) = 1

====
